---- MODULE Spec2Model ----
(***************************************************************************)
(* deploy-rs: the build-and-push pipeline of one (node, profile) target    *)
(* (src/src/push.rs) on top of the three-layer settings merge              *)
(* (src/src/data.rs).                                                      *)
(*                                                                         *)
(* Strings are sequences of symbols; Option<T> is a set with at most one   *)
(* element (None == {}, Some(v) == {v}).                                   *)
(***************************************************************************)
EXTENDS Integers, Sequences, FiniteSets, TLC

VARIABLES
    root,               \* Data.generic_settings (global defaults)
    node,               \* Node.generic_settings
    profile,            \* Profile.generic_settings
    merged_settings,    \* DeployData.merged_settings
    supports_flakes,    \* PushProfileData.supports_flakes
    local_key,          \* whether LOCAL_KEY is set in the environment
    pc,                 \* position of the target's task
    show_derivation_json, \* parsed stdout of `nix show-derivation`
    deriver_key,        \* first key of derivation_info
    nix_store,          \* stdout of `nix eval --raw --expr builtins.storeDir`
    deriver,            \* deriver_key normalised to a full store path
    path_info_stdout,   \* stdout of `nix path-info <deriver>`
    derivation_name,    \* the reference handed to build_profile_{locally,remotely}
    children,           \* children spawned by build_profile_remotely
    trace,              \* what the task did to the outside world, in order
    build_result,       \* what build_profile returned
    push_result,        \* what push_profile returned
    progressbar,        \* whether DeployData.progressbar is Some
    scripts,            \* the lines each remote child writes while it runs
    written,            \* how many lines the running child has written
    pipes,              \* the lines in the running child's stdout and stderr pipes
    pb_messages,        \* the messages set on the progress bar, in order
    cmd_overrides,      \* DeployData.cmd_overrides (hostname)
    node_settings,      \* Node.node_settings (hostname)
    deploy_defs,        \* PushProfileData.deploy_defs (ssh_user)
    check_sigs,         \* PushProfileData.check_sigs
    commands            \* the remote and copy commands as they were issued

vars == << root, node, profile, merged_settings, supports_flakes, local_key, pc,
           show_derivation_json, deriver_key, nix_store, deriver,
           path_info_stdout, derivation_name, children, trace,
           build_result, push_result, progressbar, scripts, written, pipes,
           pb_messages, cmd_overrides, node_settings, deploy_defs, check_sigs,
           commands >>

\* the parts of PushProfileData that name the destination
destination == << cmd_overrides, node_settings, deploy_defs, check_sigs >>

\* the variables of the children's output
io == << progressbar, scripts, written, pipes, pb_messages >>

----------------------------------------------------------------------------
(* Option<T> *)

None == {}

Some(v) == {v}

\* Option::unwrap_or
unwrap_or(opt, default) == IF opt = None THEN default ELSE CHOOSE v \in opt : TRUE

----------------------------------------------------------------------------
(* data.rs: GenericSettings and its derived Merge *)

\* the fields merged with merge::option::overwrite_none
ScalarFields ==
    { "ssh_user", "user", "compress", "fast_connection", "auto_rollback",
      "confirm_timeout", "activation_timeout", "temp_path", "magic_rollback",
      "sudo", "remote_build", "interactive_sudo" }

BoolFields ==
    { "compress", "fast_connection", "auto_rollback", "magic_rollback",
      "remote_build", "interactive_sudo" }

NumFields == { "confirm_timeout", "activation_timeout" }

\* sample values of each field's type
FieldValues(f) ==
    IF f \in BoolFields THEN BOOLEAN
    ELSE IF f \in NumFields THEN { 30, 240 }
    ELSE { "a", "b" }

OptValues(f) == { None } \cup { Some(v) : v \in FieldValues(f) }

\* a GenericSettings with nothing set
EmptySettings == [ f \in ScalarFields \cup { "ssh_opts" } |->
                     IF f = "ssh_opts" THEN << >> ELSE None ]

\* a mutation of overwrite_none: the right-hand side overwrites when it is set
overwrite_some(left, right) == IF right # None THEN right ELSE left

\* merge::option::overwrite_none: the left value is kept unless it is None
overwrite_none(left, right) == IF left = None THEN right ELSE left

\* merge::vec::append: left.append(&mut right)
append(left, right) == left \o right

\* #[derive(Merge)] on GenericSettings: self.merge(other), field by field
merge(self, other) ==
    [ f \in DOMAIN self |->
        IF f = "ssh_opts" THEN append(self[f], other[f])
        ELSE overwrite_none(self[f], other[f]) ]

\* DeployData.merged_settings: the profile's settings, merged with the node's,
\* then with the root's (the receiver of merge wins every scalar, so the fold
\* starts from the most specific layer)
make_merged_settings(top, nd, prof) == merge(merge(prof, nd), top)

----------------------------------------------------------------------------
(* bounds and input sets *)

\* longest ssh_opts list of one layer
MaxOpts == 2

\* largest non-zero exit code a subprocess returns
MaxExitCode == 1

SshOpts == { "-A", "-v" }

SshOptLists == UNION { [ 1..n -> SshOpts ] : n \in 0..MaxOpts }

\* a layer that sets the two fields f and g (and nothing else)
LayerOf(f, vf, g, vg) == [ EmptySettings EXCEPT ![f] = vf, ![g] = vg ]

\* a layer that sets remote_build and ssh_opts (and nothing else)
LayerWith(rb, opts) ==
    [ EmptySettings EXCEPT !["remote_build"] = rb, !["ssh_opts"] = opts ]

----------------------------------------------------------------------------
(* strings *)

\* str::starts_with
starts_with(s, prefix) ==
    /\ Len(prefix) <= Len(s)
    /\ SubSeq(s, 1, Len(prefix)) = prefix

Whitespace == { " ", "\n" }

RECURSIVE trim_start(_)
trim_start(s) ==
    IF s # << >> /\ Head(s) \in Whitespace THEN trim_start(Tail(s)) ELSE s

RECURSIVE trim_end(_)
trim_end(s) ==
    IF s # << >> /\ s[Len(s)] \in Whitespace
    THEN trim_end(SubSeq(s, 1, Len(s) - 1)) ELSE s

\* str::trim
trim(s) == trim_end(trim_start(s))

\* the bytes of a subprocess's stdout: valid UTF-8 holding text, or not
Utf8(s) == [ utf8 |-> TRUE, text |-> s ]

NotUtf8 == [ utf8 |-> FALSE, text |-> << >> ]

----------------------------------------------------------------------------
(* serde_json::Value, as far as build_profile reads it *)

\* an object is a set of <<key, value>> pairs with distinct keys
JsonObject(pairs) == [ t |-> "object", m |-> pairs ]

JsonNull == [ t |-> "null", m |-> {} ]

JsonArray == [ t |-> "array", m |-> {} ]

\* the variable's value before the output was parsed
NoJson == [ t |-> "unparsed", m |-> {} ]

\* Value::get(key): the member of an object, None for anything else
get(v, key) ==
    IF v.t = "object" /\ \E p \in v.m : p[1] = key
    THEN Some((CHOOSE p \in v.m : p[1] = key)[2])
    ELSE None

\* Value::as_object
as_object(v) == IF v.t = "object" THEN Some(v.m) ELSE None

\* Map::keys
keys(m) == { p[1] : p \in m }

DerivationsKey == << "d", "e", "r", "i", "v", "a", "t", "i", "o", "n", "s" >>

\* a mutation of derivation_info: the nested key is never probed
derivation_info_top_only(json) == json

\* push.rs 322-324: the value under "derivations" if there is one, else the top level
derivation_info(json) == unwrap_or(get(json, DerivationsKey), json)

----------------------------------------------------------------------------
(* the deriver resolution of build_profile *)

\* a mutation of normalize_deriver: the store root is always prefixed
normalize_always_prefix(store, key) == store \o << "/" >> \o key

\* push.rs 346-350: a key that lacks the store root gets it prefixed
normalize_deriver(store, key) ==
    IF starts_with(key, store) THEN key ELSE store \o << "/" >> \o key

OutSuffix == << "^", "o", "u", "t" >>

\* push.rs 352-364
new_deriver(drv, flakes, settings) ==
    IF flakes \/ unwrap_or(settings["remote_build"], FALSE)
    THEN drv \o OutSuffix
    ELSE drv

\* a mutation of builds_remotely: any remote_build that is set counts as true
builds_remotely_when_set(settings) == settings["remote_build"] # None

\* a mutation of builds_remotely: an absent remote_build counts as true
builds_remotely_by_default(settings) == unwrap_or(settings["remote_build"], TRUE)

\* push.rs 392-397 and 423-427: merged_settings.remote_build.unwrap_or(false)
builds_remotely(settings) == unwrap_or(settings["remote_build"], FALSE)

\* a mutation of resolved_deriver: the output is compared untrimmed
resolved_deriver_untrimmed(stdout, drv, new_drv) ==
    IF stdout.utf8 /\ stdout.text = drv THEN new_drv ELSE drv

\* push.rs 375-391: new_deriver when path-info echoes the deriver back
resolved_deriver(stdout, drv, new_drv) ==
    IF stdout.utf8 /\ trim(stdout.text) = drv THEN new_drv ELSE drv

----------------------------------------------------------------------------
(* what the subprocesses and the filesystem may answer *)

\* ExitStatus::code(): Some(c), or None for a process ended by a signal
ExitCodes == { Some(c) : c \in 0..MaxExitCode } \cup { None }

\* Command::status / Command::output: the spawn fails, or the process exits
SpawnFailed == [ launched |-> FALSE, code |-> None ]

Exited(c) == [ launched |-> TRUE, code |-> c ]

Outcomes == { SpawnFailed } \cup { Exited(c) : c \in ExitCodes }

StoreDir == << "/", "s" >>

RelativeKey == << "a" >>

FullKey == StoreDir \o << "/" >> \o RelativeKey

OtherPath == StoreDir \o << "/", "b" >>

\* the description of one derivation; build_profile never reads it
DrvBody == JsonObject({})

\* the JSON values `nix show-derivation` prints in this model
ShowDerivationJsons ==
    { JsonNull,
      JsonArray,
      JsonObject({}),
      JsonObject({ << RelativeKey, DrvBody >> }),
      JsonObject({ << FullKey, DrvBody >> }),
      JsonObject({ << RelativeKey, DrvBody >>, << FullKey, DrvBody >> }),
      JsonObject({ << DerivationsKey, JsonObject({ << FullKey, DrvBody >> }) >> }),
      JsonObject({ << DerivationsKey, JsonObject({}) >> }),
      JsonObject({ << DerivationsKey, JsonNull >> }),
      JsonObject({ << DerivationsKey, JsonObject({ << RelativeKey, DrvBody >> }) >>,
                   << FullKey, DrvBody >> }) }

\* stdout of show-derivation: not UTF-8, not JSON, or a JSON value
ShowDerivationStdouts ==
    { [ utf8 |-> FALSE, parses |-> FALSE, json |-> NoJson ],
      [ utf8 |-> TRUE, parses |-> FALSE, json |-> NoJson ] }
    \cup { [ utf8 |-> TRUE, parses |-> TRUE, json |-> j ] : j \in ShowDerivationJsons }

\* stdout of the store-root query (empty when the query printed nothing)
EvalStoreStdouts == { NotUtf8, Utf8(<< >>), Utf8(StoreDir) }

\* stdout of path-info for drv: the echo, the echo and a newline, another
\* path, nothing, or bytes that are not text
PathInfoStdouts(drv) ==
    { Utf8(drv), Utf8(drv \o << "\n" >>), Utf8(OtherPath \o << "\n" >>),
      Utf8(<< >>), NotUtf8 }

----------------------------------------------------------------------------
(* results and the trace *)

Pending == [ tag |-> "Pending", kind |-> "", code |-> None ]

Ok == [ tag |-> "Ok", kind |-> "", code |-> None ]

\* Err(PushProfileError::kind(code)); code is None for the kinds without one
Err(kind, code) == [ tag |-> "Err", kind |-> kind, code |-> code ]

\* the task panicked (an expect() on a failed spawn)
Panicked == [ tag |-> "Panic", kind |-> "", code |-> None ]

Ev(ev, site, code) == [ ev |-> ev, site |-> site, code |-> code ]

\* Command::status / Command::output at a call site: the invocation, and the
\* exit the call waited for when the process was launched
Ran(site, o) ==
    IF o.launched
    THEN << Ev("invoke", site, None), Ev("exit", site, o.code) >>
    ELSE << Ev("invoke", site, None) >>

\* a mutation of exit_ok: any exit that has a code passes
exit_has_code(code) == code # None

\* match status.code() { Some(0) => (), a => return Err(..Exit(a)) }
exit_ok(code) == code = Some(0)

\* the caller of build_profile and push_profile: push follows a successful build
AfterBuild(r) == IF r.tag = "Ok" THEN "push_profile" ELSE "done"

----------------------------------------------------------------------------
(* the destination of the copies and of the remote build *)

\* the zero byte, as one symbol
Nul == "NUL"

\* the words shlex joins unquoted: of the symbols used here, a space asks for
\* quotes and so does the empty word
needs_quotes(word) == word = << >> \/ \E i \in DOMAIN word : word[i] = " "

\* shlex::try_quote: Err (None) for a word with a zero byte, else the word,
\* in single quotes when it needs them
try_quote(word) ==
    IF \E i \in DOMAIN word : word[i] = Nul THEN None
    ELSE IF needs_quotes(word) THEN Some(<< "'" >> \o word \o << "'" >>)
    ELSE Some(word)

RECURSIVE join(_, _)
\* [String]::join(sep)
join(words, sep) ==
    IF words = << >> THEN << >>
    ELSE IF Len(words) = 1 THEN words[1]
    ELSE words[1] \o sep \o join(Tail(words), sep)

\* shlex::try_join: the quoted words joined by a space; Err (None) when one of
\* them cannot be quoted
try_join(words) ==
    IF \E i \in DOMAIN words : try_quote(words[i]) = None THEN None
    ELSE Some(join([ i \in DOMAIN words |-> unwrap_or(try_quote(words[i]), << >>) ],
                   << " " >>))

\* a mutation of remote_ssh_opts_str: the options are joined unquoted
remote_ssh_opts_str_unquoted(settings) == join(settings["ssh_opts"], << " " >>)

\* push.rs 212-220: shlex::try_join(ssh_opts).unwrap_or(ssh_opts.join(" "))
remote_ssh_opts_str(settings) ==
    unwrap_or(try_join(settings["ssh_opts"]), join(settings["ssh_opts"], << " " >>))

\* push.rs 411-419: shlex::try_join(ssh_opts).unwrap_or(ssh_opts.join(" "))
push_ssh_opts_str(settings) ==
    unwrap_or(try_join(settings["ssh_opts"]), join(settings["ssh_opts"], << " " >>))

\* push.rs 205-209: the hostname override, else the node's hostname
remote_hostname(overrides, settings) ==
    unwrap_or(overrides.hostname, settings.hostname)

\* push.rs 445-448: the hostname override, else the node's hostname
push_hostname(overrides, settings) ==
    unwrap_or(overrides.hostname, settings.hostname)

\* bool as format!("{}") prints it
bool_to_string(b) ==
    IF b THEN << "t", "r", "u", "e" >> ELSE << "f", "a", "l", "s", "e" >>

\* format!("ssh-ng://{}@{}", ssh_user, hostname)
store_address(ssh_user, hostname) ==
    << "s", "s", "h", "-", "n", "g", ":", "/", "/" >> \o ssh_user \o << "@" >>
        \o hostname

\* format!("ssh://{}@{}?compress={}", ssh_user, hostname, compress)
push_address(ssh_user, hostname, compress) ==
    << "s", "s", "h", ":", "/", "/" >> \o ssh_user \o << "@" >> \o hostname
        \o << "?", "c", "o", "m", "p", "r", "e", "s", "s", "=" >>
        \o bool_to_string(compress)

\* a mutation of push_copy_flags: substitution on the destination is asked for
\* only when fast_connection is set to false
push_copy_flags_unless_unset(settings, check) ==
    (IF settings["fast_connection"] = Some(FALSE)
     THEN { "--substitute-on-destination" } ELSE { })
    \cup (IF ~check THEN { "--no-check-sigs" } ELSE { })

\* push.rs 437-443: the flags of the closure copy
push_copy_flags(settings, check) ==
    (IF settings["fast_connection"] # Some(TRUE)
     THEN { "--substitute-on-destination" } ELSE { })
    \cup (IF ~check THEN { "--no-check-sigs" } ELSE { })

\* a nix command: its flags, the store it addresses and its NIX_SSHOPTS
NixCommand(flags, to, ssh_opts_str) ==
    [ flags |-> flags, to |-> to, NIX_SSHOPTS |-> ssh_opts_str ]

\* push.rs 223-235: nix copy -s --to <store_address> --derivation ..
remote_copy_command ==
    NixCommand({ "-s", "--derivation" },
               store_address(deploy_defs.ssh_user,
                             remote_hostname(cmd_overrides, node_settings)),
               remote_ssh_opts_str(merged_settings))

\* push.rs 257-269: nix build .. --eval-store auto --store <store_address>
remote_build_command ==
    NixCommand({ "--eval-store", "--store" },
               store_address(deploy_defs.ssh_user,
                             remote_hostname(cmd_overrides, node_settings)),
               remote_ssh_opts_str(merged_settings))

\* push.rs 434-463: nix copy [flags] --to ssh://..?compress=.. <path>
push_copy_command ==
    NixCommand(push_copy_flags(merged_settings, check_sigs),
               push_address(deploy_defs.ssh_user,
                            push_hostname(cmd_overrides, node_settings),
                            unwrap_or(merged_settings["compress"], FALSE)),
               push_ssh_opts_str(merged_settings))

NoCommands == [ site \in { "remote_copy", "remote_build", "push_copy" } |-> None ]

----------------------------------------------------------------------------
(* the target's task *)

\* build_profile returns r to its caller
BuildProfileReturns(r) ==
    /\ build_result' = r
    /\ pc' = AfterBuild(r)

\* construction of DeployData: the three layers are folded into merged_settings
MakeDeployData ==
    /\ pc = "make_deploy_data"
    /\ merged_settings' = make_merged_settings(root, node, profile)
    /\ pc' = "show_derivation"
    /\ UNCHANGED << root, node, profile, supports_flakes, local_key,
                    show_derivation_json, deriver_key, nix_store, deriver,
                    path_info_stdout, derivation_name, children, trace,
                    build_result, push_result >>
    /\ UNCHANGED io
    /\ UNCHANGED destination
    /\ UNCHANGED commands

\* push.rs 301-331: the metadata query and the choice of deriver_key
ShowDerivation ==
    /\ pc = "show_derivation"
    /\ \E o \in Outcomes, out \in ShowDerivationStdouts :
        /\ trace' = trace \o Ran("show_derivation", o)
        /\ IF ~o.launched THEN
               /\ BuildProfileReturns(Err("ShowDerivation", None))
               /\ UNCHANGED << show_derivation_json, deriver_key >>
           ELSE IF ~exit_ok(o.code) THEN
               /\ BuildProfileReturns(Err("ShowDerivationExit", o.code))
               /\ UNCHANGED << show_derivation_json, deriver_key >>
           ELSE IF ~out.utf8 THEN
               /\ BuildProfileReturns(Err("ShowDerivationUtf8", None))
               /\ UNCHANGED << show_derivation_json, deriver_key >>
           ELSE IF ~out.parses THEN
               /\ BuildProfileReturns(Err("ShowDerivationParse", None))
               /\ UNCHANGED << show_derivation_json, deriver_key >>
           ELSE
               /\ show_derivation_json' = out.json
               /\ LET info == as_object(derivation_info(out.json)) IN
                  IF info = None THEN
                      /\ BuildProfileReturns(Err("ShowDerivationInvalid", None))
                      /\ UNCHANGED deriver_key
                  ELSE IF keys(unwrap_or(info, {})) = {} THEN
                      /\ BuildProfileReturns(Err("ShowDerivationEmpty", None))
                      /\ UNCHANGED deriver_key
                  ELSE
                      \* keys().next(): the first key in the map's order, which
                      \* is the build's choice (sorted or insertion order)
                      /\ \E k \in keys(unwrap_or(info, {})) : deriver_key' = k
                      /\ pc' = "eval_store"
                      /\ UNCHANGED build_result
    /\ UNCHANGED << root, node, profile, merged_settings, supports_flakes,
                    local_key, nix_store, deriver, path_info_stdout,
                    derivation_name, children, push_result >>
    /\ UNCHANGED io
    /\ UNCHANGED destination
    /\ UNCHANGED commands

\* push.rs 335-350: the store-root query and the normalisation of the key;
\* the exit status of the query is not read
EvalStore ==
    /\ pc = "eval_store"
    /\ \E o \in Outcomes, out \in EvalStoreStdouts :
        /\ trace' = trace \o Ran("eval_store", o)
        /\ IF ~o.launched THEN
               /\ BuildProfileReturns(Err("EvalStore", None))
               /\ UNCHANGED << nix_store, deriver >>
           ELSE IF ~out.utf8 THEN
               /\ BuildProfileReturns(Err("EvalStoreUtf8", None))
               /\ UNCHANGED << nix_store, deriver >>
           ELSE
               /\ nix_store' = out.text
               /\ deriver' = normalize_deriver(out.text, deriver_key)
               /\ pc' = "path_info"
               /\ UNCHANGED build_result
    /\ UNCHANGED << root, node, profile, merged_settings, supports_flakes,
                    local_key, show_derivation_json, deriver_key,
                    path_info_stdout, derivation_name, children, push_result >>
    /\ UNCHANGED io
    /\ UNCHANGED destination
    /\ UNCHANGED commands

\* a mutation of EnterBuild: the else branch is lost, and without remote_build
\* build_profile returns Ok having built nothing
EnterBuildRemoteOnly(tr) ==
    IF builds_remotely(merged_settings) THEN
        /\ trace' = Append(tr, Ev("call", "build_profile_remotely", None))
        /\ pc' = "remote_copy_spawn"
        /\ UNCHANGED build_result
    ELSE
        /\ trace' = tr
        /\ BuildProfileReturns(Ok)

\* push.rs 392-405: build_profile_remotely or build_profile_locally is entered;
\* tr is the trace up to here
EnterBuild(tr) ==
    /\ IF builds_remotely(merged_settings) THEN
           /\ trace' = Append(tr, Ev("call", "build_profile_remotely", None))
           /\ pc' = "remote_copy_spawn"
       ELSE
           /\ trace' = Append(tr, Ev("call", "build_profile_locally", None))
           /\ pc' = "local_build"
    /\ UNCHANGED build_result

\* push.rs 352-405: the path-info probe, the resolved reference and the choice
\* of the build branch; the exit status of the probe is not read
PathInfo ==
    /\ pc = "path_info"
    /\ \E o \in Outcomes, out \in PathInfoStdouts(deriver) :
        IF ~o.launched THEN
            /\ trace' = trace \o Ran("path_info", o)
            /\ BuildProfileReturns(Err("PathInfo", None))
            /\ UNCHANGED << path_info_stdout, derivation_name >>
        ELSE
            /\ path_info_stdout' = out
            /\ derivation_name' =
                   resolved_deriver(out, deriver,
                       new_deriver(deriver, supports_flakes, merged_settings))
            /\ EnterBuild(trace \o Ran("path_info", o))
    /\ UNCHANGED << root, node, profile, merged_settings, supports_flakes,
                    local_key, show_derivation_json, deriver_key, nix_store,
                    deriver, children, push_result >>
    /\ UNCHANGED io
    /\ UNCHANGED destination
    /\ UNCHANGED commands

\* a mutation of entry_points: activate-rs is looked for first
entry_points_swapped(has_deploy_rs_activate, has_activate_rs) ==
    IF ~has_activate_rs THEN
        [ looked |-> << Ev("missing", "activate-rs", None) >>,
          err |-> "ActivateRsDoesntExist" ]
    ELSE IF ~has_deploy_rs_activate THEN
        [ looked |-> << Ev("exists", "activate-rs", None),
                        Ev("missing", "deploy-rs-activate", None) >>,
          err |-> "DeployRsActivateDoesntExist" ]
    ELSE
        [ looked |-> << Ev("exists", "activate-rs", None),
                        Ev("exists", "deploy-rs-activate", None) >>,
          err |-> "" ]

\* push.rs 129-151: the two entry points of the built closure are looked for
\* in order; err is the error of the first one missing, "" when both exist
entry_points(has_deploy_rs_activate, has_activate_rs) ==
    IF ~has_deploy_rs_activate THEN
        [ looked |-> << Ev("missing", "deploy-rs-activate", None) >>,
          err |-> "DeployRsActivateDoesntExist" ]
    ELSE IF ~has_activate_rs THEN
        [ looked |-> << Ev("exists", "deploy-rs-activate", None),
                        Ev("missing", "activate-rs", None) >>,
          err |-> "ActivateRsDoesntExist" ]
    ELSE
        [ looked |-> << Ev("exists", "deploy-rs-activate", None),
                        Ev("exists", "activate-rs", None) >>,
          err |-> "" ]

\* build_profile_locally: the build, the two entry-point checks, and whether
\* a sign invocation follows
LocalBuild ==
    /\ pc = "local_build"
    /\ \E o \in Outcomes, has_deploy_rs_activate \in BOOLEAN,
          has_activate_rs \in BOOLEAN :
        IF ~o.launched THEN
            /\ trace' = trace \o Ran("local_build", o)
            /\ BuildProfileReturns(Err("Build", None))
        ELSE IF ~exit_ok(o.code) THEN
            /\ trace' = trace \o Ran("local_build", o)
            /\ BuildProfileReturns(Err("BuildExit", o.code))
        ELSE
            LET checked == entry_points(has_deploy_rs_activate, has_activate_rs)
            IN  /\ trace' = trace \o Ran("local_build", o) \o checked.looked
                /\ IF checked.err # ""
                   THEN BuildProfileReturns(Err(checked.err, None))
                   ELSE IF local_key
                   THEN pc' = "sign" /\ UNCHANGED build_result
                   ELSE BuildProfileReturns(Ok)
    /\ UNCHANGED << root, node, profile, merged_settings, supports_flakes,
                    local_key, show_derivation_json, deriver_key, nix_store,
                    deriver, path_info_stdout, derivation_name, children,
                    push_result >>
    /\ UNCHANGED io
    /\ UNCHANGED destination
    /\ UNCHANGED commands

\* a mutation of Sign: the sign step is skipped and Ok is returned
SignSkipped ==
    /\ pc = "sign"
    /\ BuildProfileReturns(Ok)
    /\ UNCHANGED << root, node, profile, merged_settings, supports_flakes,
                    local_key, show_derivation_json, deriver_key, nix_store,
                    deriver, path_info_stdout, derivation_name, children,
                    trace, push_result >>
    /\ UNCHANGED io
    /\ UNCHANGED destination
    /\ UNCHANGED commands

\* a mutation of Sign: a sign invocation that fails to launch is reported with
\* the kind of the build invocation
SignFailsAsBuild ==
    /\ pc = "sign"
    /\ \E o \in Outcomes :
        /\ trace' = trace \o Ran("sign", o)
        /\ IF ~o.launched THEN BuildProfileReturns(Err("Build", None))
           ELSE IF ~exit_ok(o.code) THEN BuildProfileReturns(Err("SignExit", o.code))
           ELSE BuildProfileReturns(Ok)
    /\ UNCHANGED << root, node, profile, merged_settings, supports_flakes,
                    local_key, show_derivation_json, deriver_key, nix_store,
                    deriver, path_info_stdout, derivation_name, children,
                    push_result >>
    /\ UNCHANGED io
    /\ UNCHANGED destination
    /\ UNCHANGED commands

\* a mutation of Sign: a sign invocation that fails to launch is tried again
SignRetried ==
    /\ pc = "sign"
    /\ \E o \in Outcomes :
        /\ trace' = trace \o Ran("sign", o)
        /\ IF ~o.launched THEN UNCHANGED << pc, build_result >>
           ELSE IF ~exit_ok(o.code) THEN BuildProfileReturns(Err("SignExit", o.code))
           ELSE BuildProfileReturns(Ok)
    /\ UNCHANGED << root, node, profile, merged_settings, supports_flakes,
                    local_key, show_derivation_json, deriver_key, nix_store,
                    deriver, path_info_stdout, derivation_name, children,
                    push_result >>
    /\ UNCHANGED io
    /\ UNCHANGED destination
    /\ UNCHANGED commands

\* push.rs 153-174: nix sign-paths with LOCAL_KEY, then Ok
Sign ==
    /\ pc = "sign"
    /\ \E o \in Outcomes :
        /\ trace' = trace \o Ran("sign", o)
        /\ IF ~o.launched THEN BuildProfileReturns(Err("Sign", None))
           ELSE IF ~exit_ok(o.code) THEN BuildProfileReturns(Err("SignExit", o.code))
           ELSE BuildProfileReturns(Ok)
    /\ UNCHANGED << root, node, profile, merged_settings, supports_flakes,
                    local_key, show_derivation_json, deriver_key, nix_store,
                    deriver, path_info_stdout, derivation_name, children,
                    push_result >>
    /\ UNCHANGED io
    /\ UNCHANGED destination
    /\ UNCHANGED commands

----------------------------------------------------------------------------
(* the output of the children of build_profile_remotely *)

\* the most lines a child writes to one of its streams
MaxLines == 2

\* the lines a pipe holds before a write to it blocks
PipeLines == 1

Streams == { "stdout", "stderr" }

\* the n-th line child c writes to stream s; utf8: the line is valid text
Line(c, s, n, utf8) == [ child |-> c, stream |-> s, n |-> n, utf8 |-> utf8 ]

\* which lines of one stream are valid text, for up to MaxLines lines
Validities == UNION { [ 1..n -> BOOLEAN ] : n \in 0..MaxLines }

\* what child c writes: the lines of its stdout and the lines of its stderr
Script(c, vo, ve) ==
    [ stdout |-> [ i \in DOMAIN vo |-> Line(c, "stdout", i, vo[i]) ],
      stderr |-> [ i \in DOMAIN ve |-> Line(c, "stderr", i, ve[i]) ] ]

\* the scripts of child c: any lines on stdout, lines of valid text on stderr
ScriptsOf(c) ==
    { Script(c, vo, [ i \in 1..n |-> TRUE ]) : vo \in Validities, n \in 0..MaxLines }

\* a child that writes nothing
Silent(c) == Script(c, << >>, << >>)

\* .stdout(Stdio::piped()).stderr(Stdio::piped()): two empty pipes
NewPipes == [ s \in Streams |-> << >> ]

NothingWritten == [ s \in Streams |-> 0 ]

\* stdout.merge(stderr): the streams that have a line ready
merged_ready(p) == { s \in Streams : p[s] # << >> }

\* stdout.merge(stderr) yields None: both streams are at end of file
merged_ended(p, closed) == closed /\ \A s \in Streams : p[s] = << >>

\* where the task goes once a child is spawned: into the forwarding loop when
\* a progress bar is attached, else straight to wait()
AfterSpawn(c) ==
    IF progressbar THEN "remote_" \o c \o "_pb" ELSE "remote_" \o c \o "_wait"

\* a running child writes its next line to a pipe that has room, or exits
\* once it has written everything, which closes its ends of the pipes
ChildStep ==
    /\ pc \in { "remote_copy_pb", "remote_copy_wait",
                "remote_build_pb", "remote_build_wait" }
    /\ \E c \in { "copy", "build" } :
        /\ children[c] = "spawned"
        /\ \/ \E s \in Streams :
                /\ written[s] < Len(scripts[c][s])
                /\ Len(pipes[s]) < PipeLines
                /\ written' = [ written EXCEPT ![s] = @ + 1 ]
                /\ pipes' = [ pipes EXCEPT
                                ![s] = Append(@, scripts[c][s][written[s] + 1]) ]
                /\ UNCHANGED children
           \/ /\ \A s \in Streams : written[s] = Len(scripts[c][s])
              /\ children' = [ children EXCEPT ![c] = "exited" ]
              /\ UNCHANGED << written, pipes >>
    /\ UNCHANGED << root, node, profile, merged_settings, supports_flakes,
                    local_key, pc, show_derivation_json, deriver_key, nix_store,
                    deriver, path_info_stdout, derivation_name, trace,
                    build_result, push_result, progressbar, scripts,
                    pb_messages >>
    /\ UNCHANGED destination
    /\ UNCHANGED commands

\* update_pb_with_child_output: one turn of
\* `while let Some(line) = merged.next().await { pb.set_message(line.expect(..)) }`
PbNext ==
    /\ pc \in { "remote_copy_pb", "remote_build_pb" }
    /\ LET c == IF pc = "remote_copy_pb" THEN "copy" ELSE "build" IN
        \/ \E s \in merged_ready(pipes) :
            LET line == Head(pipes[s]) IN
            /\ pipes' = [ pipes EXCEPT ![s] = Tail(@) ]
            /\ IF line.utf8 THEN
                   /\ pb_messages' = Append(pb_messages, line)
                   /\ UNCHANGED << pc, build_result >>
               ELSE
                   \* expect("expected a valid line") panics
                   /\ build_result' = Panicked
                   /\ pc' = "done"
                   /\ UNCHANGED pb_messages
        \/ /\ merged_ended(pipes, children[c] = "exited")
           /\ pc' = "remote_" \o c \o "_wait"
           /\ UNCHANGED << pipes, pb_messages, build_result >>
    /\ UNCHANGED << root, node, profile, merged_settings, supports_flakes,
                    local_key, show_derivation_json, deriver_key, nix_store,
                    deriver, path_info_stdout, derivation_name, children, trace,
                    push_result, progressbar, scripts, written >>
    /\ UNCHANGED destination
    /\ UNCHANGED commands

\* push.rs 223-243: the recipe copy is spawned with both streams piped; a
\* failed spawn panics
RemoteCopySpawn ==
    /\ pc = "remote_copy_spawn"
    /\ trace' = Append(trace, Ev("invoke", "remote_copy", None))
    /\ \E spawned \in BOOLEAN :
        IF spawned THEN
            /\ children' = [ children EXCEPT !["copy"] = "spawned" ]
            /\ pc' = AfterSpawn("copy")
            /\ UNCHANGED build_result
        ELSE
            /\ build_result' = Panicked
            /\ pc' = "done"
            /\ UNCHANGED children
    /\ pipes' = NewPipes
    /\ written' = NothingWritten
    /\ commands' = [ commands EXCEPT !["remote_copy"] = Some(remote_copy_command) ]
    /\ UNCHANGED << root, node, profile, merged_settings, supports_flakes,
                    local_key, show_derivation_json, deriver_key, nix_store,
                    deriver, path_info_stdout, derivation_name, push_result,
                    progressbar, scripts, pb_messages >>
    /\ UNCHANGED destination

\* push.rs 249-255: child.wait() on the recipe copy, which returns once the
\* child has exited, and its exit code
RemoteCopyWait ==
    /\ pc = "remote_copy_wait"
    /\ \E o \in Outcomes :
        IF ~o.launched THEN
            \* wait() itself failed
            /\ children' = [ children EXCEPT !["copy"] = "wait_failed" ]
            /\ BuildProfileReturns(Err("Copy", None))
            /\ UNCHANGED trace
        ELSE
            /\ children["copy"] = "exited"
            /\ children' = [ children EXCEPT !["copy"] = "reaped" ]
            /\ trace' = Append(trace, Ev("exit", "remote_copy", o.code))
            /\ IF ~exit_ok(o.code)
               THEN BuildProfileReturns(Err("CopyExit", o.code))
               ELSE pc' = "remote_build_spawn" /\ UNCHANGED build_result
    /\ UNCHANGED << root, node, profile, merged_settings, supports_flakes,
                    local_key, show_derivation_json, deriver_key, nix_store,
                    deriver, path_info_stdout, derivation_name, push_result >>
    /\ UNCHANGED io
    /\ UNCHANGED destination
    /\ UNCHANGED commands

\* push.rs 257-277: the remote build is spawned with both streams piped; a
\* failed spawn panics
RemoteBuildSpawn ==
    /\ pc = "remote_build_spawn"
    /\ trace' = Append(trace, Ev("invoke", "remote_build", None))
    /\ \E spawned \in BOOLEAN :
        IF spawned THEN
            /\ children' = [ children EXCEPT !["build"] = "spawned" ]
            /\ pc' = AfterSpawn("build")
            /\ UNCHANGED build_result
        ELSE
            /\ build_result' = Panicked
            /\ pc' = "done"
            /\ UNCHANGED children
    /\ pipes' = NewPipes
    /\ written' = NothingWritten
    /\ commands' = [ commands EXCEPT !["remote_build"] = Some(remote_build_command) ]
    /\ UNCHANGED << root, node, profile, merged_settings, supports_flakes,
                    local_key, show_derivation_json, deriver_key, nix_store,
                    deriver, path_info_stdout, derivation_name, push_result,
                    progressbar, scripts, pb_messages >>
    /\ UNCHANGED destination

\* push.rs 283-291: child.wait() on the remote build, which returns once the
\* child has exited, and its exit code
RemoteBuildWait ==
    /\ pc = "remote_build_wait"
    /\ \E o \in Outcomes :
        IF ~o.launched THEN
            /\ children' = [ children EXCEPT !["build"] = "wait_failed" ]
            /\ BuildProfileReturns(Err("Build", None))
            /\ UNCHANGED trace
        ELSE
            /\ children["build"] = "exited"
            /\ children' = [ children EXCEPT !["build"] = "reaped" ]
            /\ trace' = Append(trace, Ev("exit", "remote_build", o.code))
            /\ IF ~exit_ok(o.code)
               THEN BuildProfileReturns(Err("BuildExit", o.code))
               ELSE BuildProfileReturns(Ok)
    /\ UNCHANGED << root, node, profile, merged_settings, supports_flakes,
                    local_key, show_derivation_json, deriver_key, nix_store,
                    deriver, path_info_stdout, derivation_name, push_result >>
    /\ UNCHANGED io
    /\ UNCHANGED destination
    /\ UNCHANGED commands

\* push_profile: the closure copy, skipped after a remote build
PushProfile ==
    /\ pc = "push_profile"
    /\ IF builds_remotely(merged_settings) THEN
           /\ push_result' = Ok
           /\ UNCHANGED << trace, commands >>
       ELSE
           \E o \in Outcomes :
               /\ trace' = trace \o Ran("push_copy", o)
               /\ commands' = [ commands EXCEPT !["push_copy"] = Some(push_copy_command) ]
               /\ push_result' =
                      IF ~o.launched THEN Err("Copy", None)
                      ELSE IF ~exit_ok(o.code) THEN Err("CopyExit", o.code)
                      ELSE Ok
    /\ pc' = "done"
    /\ UNCHANGED << root, node, profile, merged_settings, supports_flakes,
                    local_key, show_derivation_json, deriver_key, nix_store,
                    deriver, path_info_stdout, derivation_name, children,
                    build_result >>
    /\ UNCHANGED io
    /\ UNCHANGED destination

----------------------------------------------------------------------------
(* specifications *)

\* the state of a task that has not started
NotStarted ==
    /\ merged_settings = EmptySettings
    /\ pc = "make_deploy_data"
    /\ show_derivation_json = NoJson
    /\ deriver_key = << >>
    /\ nix_store = << >>
    /\ deriver = << >>
    /\ path_info_stdout = NotUtf8
    /\ derivation_name = << >>
    /\ children = [ copy |-> "none", build |-> "none" ]
    /\ trace = << >>
    /\ build_result = Pending
    /\ push_result = Pending
    /\ written = NothingWritten
    /\ pipes = NewPipes
    /\ pb_messages = << >>
    /\ commands = NoCommands

\* a destination without a hostname override: user u on the node's host n
PlainDestination ==
    /\ cmd_overrides = [ hostname |-> None ]
    /\ node_settings = [ hostname |-> << "n" >> ]
    /\ deploy_defs = [ ssh_user |-> << "u" >> ]
    /\ check_sigs = FALSE

\* one target: every layering of remote_build, with and without flakes. Only
\* build_profile_locally reads LOCAL_KEY and only build_profile_remotely reads
\* the progress bar, so the two are switched together: each branch still runs
\* with and without the one it reads.
Init ==
    /\ root \in { LayerWith(rb, << >>) : rb \in OptValues("remote_build") }
    /\ node \in { LayerWith(rb, << >>) : rb \in OptValues("remote_build") }
    /\ profile \in { LayerWith(rb, << >>) : rb \in OptValues("remote_build") }
    /\ supports_flakes \in BOOLEAN
    /\ local_key \in BOOLEAN
    /\ progressbar = local_key
    /\ scripts = [ c \in { "copy", "build" } |-> Silent(c) ]
    /\ PlainDestination
    /\ NotStarted

Next ==
    \/ MakeDeployData
    \/ ShowDerivation
    \/ EvalStore
    \/ PathInfo
    \/ LocalBuild
    \/ Sign
    \/ RemoteCopySpawn
    \/ RemoteCopyWait
    \/ RemoteBuildSpawn
    \/ RemoteBuildWait
    \/ ChildStep
    \/ PbNext
    \/ PushProfile

Spec == Init /\ [][Next]_vars

\* the settings merge alone: two scalar fields set freely on the three layers,
\* or the three ssh_opts lists and remote_build set freely
InitMerge ==
    /\ \/ \E f \in ScalarFields : \E g \in ScalarFields \ { f } :
            /\ root \in { LayerOf(f, vf, g, vg) :
                            vf \in OptValues(f), vg \in OptValues(g) }
            /\ node \in { LayerOf(f, vf, g, vg) :
                            vf \in OptValues(f), vg \in OptValues(g) }
            /\ profile \in { LayerOf(f, vf, g, vg) :
                               vf \in OptValues(f), vg \in OptValues(g) }
       \/ /\ root \in { LayerWith(rb, l) :
                          rb \in OptValues("remote_build"), l \in SshOptLists }
          /\ node \in { LayerWith(rb, l) :
                          rb \in OptValues("remote_build"), l \in SshOptLists }
          /\ profile \in { LayerWith(rb, l) :
                             rb \in OptValues("remote_build"), l \in SshOptLists }
    /\ supports_flakes = FALSE
    /\ local_key = FALSE
    /\ progressbar = FALSE
    /\ scripts = [ c \in { "copy", "build" } |-> Silent(c) ]
    /\ PlainDestination
    /\ NotStarted

NextMerge == MakeDeployData

SpecMerge == InitMerge /\ [][NextMerge]_vars

\* build_profile_remotely alone: a target that builds remotely has resolved
\* its deriver and enters the function; the two children write any lines, with
\* and without a progress bar
InitRemote ==
    /\ root = EmptySettings
    /\ node = EmptySettings
    /\ profile = LayerWith(Some(TRUE), << >>)
    /\ merged_settings = make_merged_settings(root, node, profile)
    /\ supports_flakes = TRUE
    /\ local_key = FALSE
    /\ show_derivation_json = JsonObject({ << FullKey, DrvBody >> })
    /\ deriver_key = FullKey
    /\ nix_store = StoreDir
    /\ deriver = FullKey
    /\ path_info_stdout = Utf8(FullKey \o << "\n" >>)
    /\ derivation_name = new_deriver(deriver, supports_flakes, merged_settings)
    /\ children = [ copy |-> "none", build |-> "none" ]
    /\ trace = Ran("show_derivation", Exited(Some(0)))
                 \o Ran("eval_store", Exited(Some(0)))
                 \o Ran("path_info", Exited(Some(0)))
                 \o << Ev("call", "build_profile_remotely", None) >>
    /\ pc = "remote_copy_spawn"
    /\ build_result = Pending
    /\ push_result = Pending
    /\ progressbar \in BOOLEAN
    /\ scripts \in [ copy : ScriptsOf("copy"), build : ScriptsOf("build") ]
    /\ written = NothingWritten
    /\ pipes = NewPipes
    /\ pb_messages = << >>
    /\ commands = NoCommands
    /\ PlainDestination

NextRemote ==
    \/ RemoteCopySpawn
    \/ RemoteCopyWait
    \/ RemoteBuildSpawn
    \/ RemoteBuildWait
    \/ ChildStep
    \/ PbNext
    \/ PushProfile

SpecRemote == InitRemote /\ [][NextRemote]_vars

\* the ssh options as they are spelled: a plain word, a word with a space, a
\* word with a zero byte, and the empty word
SshOptWords == { << "-", "A" >>, << "a", " ", "b" >>, << Nul >>, << >> }

SshOptWordLists == UNION { [ 1..n -> SshOptWords ] : n \in 0..MaxOpts }

\* a layer that sets compress, fast_connection, remote_build and ssh_opts
LayerTo(compress, fast_connection, rb, opts) ==
    [ EmptySettings EXCEPT !["compress"] = compress,
                           !["fast_connection"] = fast_connection,
                           !["remote_build"] = rb,
                           !["ssh_opts"] = opts ]

\* building and pushing to a destination: the target has resolved its deriver
\* and enters the build branch; the profile sets compress, fast_connection,
\* remote_build and the ssh options freely, with and without a hostname
\* override and signature checks
InitDestination ==
    /\ root = EmptySettings
    /\ node = EmptySettings
    /\ profile \in { LayerTo(c, f, rb, opts) :
                       c \in OptValues("compress"),
                       f \in OptValues("fast_connection"),
                       rb \in OptValues("remote_build"),
                       opts \in SshOptWordLists }
    /\ merged_settings = make_merged_settings(root, node, profile)
    /\ cmd_overrides \in { [ hostname |-> h ] : h \in { None, Some(<< "o" >>) } }
    /\ node_settings = [ hostname |-> << "n" >> ]
    /\ deploy_defs = [ ssh_user |-> << "u" >> ]
    /\ check_sigs \in BOOLEAN
    /\ supports_flakes = TRUE
    /\ local_key = FALSE
    /\ progressbar = FALSE
    /\ scripts = [ c \in { "copy", "build" } |-> Silent(c) ]
    /\ show_derivation_json = JsonObject({ << FullKey, DrvBody >> })
    /\ deriver_key = FullKey
    /\ nix_store = StoreDir
    /\ deriver = FullKey
    /\ path_info_stdout = Utf8(FullKey \o << "\n" >>)
    /\ derivation_name = new_deriver(deriver, supports_flakes, merged_settings)
    /\ children = [ copy |-> "none", build |-> "none" ]
    /\ trace = Ran("show_derivation", Exited(Some(0)))
                 \o Ran("eval_store", Exited(Some(0)))
                 \o Ran("path_info", Exited(Some(0)))
                 \o << Ev("call", IF builds_remotely(merged_settings)
                                  THEN "build_profile_remotely"
                                  ELSE "build_profile_locally", None) >>
    /\ pc = IF builds_remotely(merged_settings)
            THEN "remote_copy_spawn" ELSE "local_build"
    /\ build_result = Pending
    /\ push_result = Pending
    /\ written = NothingWritten
    /\ pipes = NewPipes
    /\ pb_messages = << >>
    /\ commands = NoCommands

NextDestination ==
    \/ LocalBuild
    \/ RemoteCopySpawn
    \/ RemoteCopyWait
    \/ RemoteBuildSpawn
    \/ RemoteBuildWait
    \/ ChildStep
    \/ PushProfile

SpecDestination == InitDestination /\ [][NextDestination]_vars

----------------------------------------------------------------------------
(* reading the trace *)

Events(ev, site) == { i \in DOMAIN trace : trace[i].ev = ev /\ trace[i].site = site }

\* how often the subprocess of a call site was invoked
Invocations(site) == Cardinality(Events("invoke", site))

\* how often the build functions were entered
BuildCalls ==
    Cardinality(Events("call", "build_profile_locally"))
    + Cardinality(Events("call", "build_profile_remotely"))

\* the errors of the three resolver queries of build_profile
ResolverErrors ==
    { "ShowDerivation", "ShowDerivationExit", "ShowDerivationUtf8",
      "ShowDerivationParse", "ShowDerivationInvalid", "ShowDerivationEmpty",
      "EvalStore", "EvalStoreUtf8", "PathInfo" }

\* merged_settings has been built
Merged == pc # "make_deploy_data"

\* the first value present among profile, node, root
FirstPresent(p, n, r) == IF p # None THEN p ELSE IF n # None THEN n ELSE r

----------------------------------------------------------------------------
(* the claims *)

\* C1: every scalar field of the merged settings is the profile's value if
\* present, else the node's, else the root's, else absent, whatever the other
\* fields hold.
C1_ScalarPrecedence ==
    Merged =>
        \A f \in ScalarFields :
            merged_settings[f] = FirstPresent(profile[f], node[f], root[f])

\* C1 witness: Scenario A (root compress false, node unset, profile true) beside
\* a sudo set on the root only.
C1_Witness ==
    /\ Merged
    /\ root["compress"] = Some(FALSE)
    /\ node["compress"] = None
    /\ profile["compress"] = Some(TRUE)
    /\ merged_settings["compress"] = Some(TRUE)
    /\ root["sudo"] = Some("a")
    /\ node["sudo"] = None
    /\ profile["sudo"] = None
    /\ merged_settings["sudo"] = Some("a")

C3_ExactlyOneBranchAlways ==
    build_result # Pending => BuildCalls = 1

\* C3 amended: never both; once build_profile has returned, neither has run if
\* it returned the error of a resolver query, and exactly one has run otherwise.
C3_OneBranchUnlessResolverError ==
    /\ BuildCalls <= 1
    /\ build_result # Pending =>
           BuildCalls = (IF build_result.kind \in ResolverErrors THEN 0 ELSE 1)

\* C3 witness: build_profile returned Ok through the local branch alone.
C3_Witness ==
    /\ build_result = Ok
    /\ Cardinality(Events("call", "build_profile_locally")) = 1
    /\ Cardinality(Events("call", "build_profile_remotely")) = 0

\* C4: push_profile invokes the closure copy zero times when the effective
\* remote_build is true and exactly once when it is false or absent, and a
\* non-zero or missing exit code of that copy yields CopyExit.
C4_PushCopyCount ==
    /\ Invocations("push_copy")
         = (IF push_result # Pending /\ merged_settings["remote_build"] # Some(TRUE)
            THEN 1 ELSE 0)
    /\ \A i \in Events("exit", "push_copy") :
           trace[i].code # Some(0) => push_result = Err("CopyExit", trace[i].code)

\* C4 witness: remote_build is absent on all three layers, the one copy was
\* ended by a signal and push_profile returned CopyExit(None).
C4_Witness ==
    /\ root["remote_build"] = None
    /\ node["remote_build"] = None
    /\ profile["remote_build"] = None
    /\ Invocations("push_copy") = 1
    /\ push_result = Err("CopyExit", None)

\* C5: when the build invocation (local or remote) exits with a non-zero code
\* c, build_profile returns BuildExit(c), and no entry-point check, no sign
\* invocation and no push copy follows.
C5_BuildExitStops ==
    \A site \in { "local_build", "remote_build" } :
        \A i \in Events("exit", site) :
            (trace[i].code # None /\ trace[i].code # Some(0)) =>
                /\ build_result = Err("BuildExit", trace[i].code)
                /\ push_result = Pending
                /\ \A j \in DOMAIN trace :
                       j > i =>
                           /\ trace[j].ev \notin { "exists", "missing" }
                           /\ trace[j].site \notin { "sign", "push_copy" }

\* C5 witness: Scenario D, the local build exited with code 1 and the task is
\* done with BuildExit(1).
C5_Witness ==
    /\ pc = "done"
    /\ \E i \in Events("exit", "local_build") : trace[i].code = Some(1)
    /\ build_result = Err("BuildExit", Some(1))

\* the sign invocation ran once and exited with code 0
SignedOnce ==
    /\ Invocations("sign") = 1
    /\ \E i \in Events("exit", "sign") : trace[i].code = Some(0)

\* C6 as stated: with a signing key present, every build that reports success
\* made exactly one sign invocation, whichever branch built.
C6_SignedOnEveryBranch ==
    (local_key /\ build_result = Ok) => SignedOnce

\* C6 amended: with a signing key present, a build that reports success through
\* the local branch made exactly one sign invocation, which exited with code 0
\* before success was reported; a build through the remote branch made none.
C6_SignedOnLocalBranchOnly ==
    /\ (local_key /\ build_result = Ok
          /\ Events("call", "build_profile_locally") # {}) => SignedOnce
    /\ Events("call", "build_profile_remotely") # {} => Invocations("sign") = 0

\* C6 witness: Scenario E, key present, local build, one sign, success.
C6_Witness ==
    /\ local_key
    /\ build_result = Ok
    /\ Events("call", "build_profile_locally") # {}
    /\ SignedOnce

\* the path-info probe was launched and its result used
Probed == Events("exit", "path_info") # {}

\* path-info printed the deriver itself, apart from surrounding whitespace
Echoed == path_info_stdout.utf8 /\ trim(path_info_stdout.text) = deriver

Normalised == Events("invoke", "path_info") # {} \/ pc = "path_info"

\* s begins with the store root
HasStoreRoot(s) ==
    /\ Len(s) >= Len(nix_store)
    /\ \A i \in 1..Len(nix_store) : s[i] = nix_store[i]

\* C8: normalisation leaves a key that starts with the store root unchanged,
\* prefixes the store root and a slash otherwise, and applied to its own result
\* returns that result, also for an empty store root.
C8_NormaliseIdempotent ==
    Normalised =>
        /\ HasStoreRoot(deriver_key) => deriver = deriver_key
        /\ ~HasStoreRoot(deriver_key) => deriver = nix_store \o << "/" >> \o deriver_key
        /\ HasStoreRoot(deriver)
        /\ normalize_deriver(nix_store, deriver) = deriver

\* C8 witness: a key without the store root got it prefixed.
C8_Witness ==
    /\ Normalised
    /\ nix_store = << "/", "s" >>
    /\ deriver_key = << "a" >>
    /\ deriver = << "/", "s", "/", "a" >>

\* the value the resolver is to read: the member "derivations" of a top-level
\* object that has one, the top level otherwise
Chosen(json) ==
    IF json.t = "object" /\ DerivationsKey \in { p[1] : p \in json.m }
    THEN (CHOOSE p \in json.m : p[1] = DerivationsKey)[2]
    ELSE json

\* C9: the resolver reads the value under "derivations" when the key exists and
\* the top level otherwise; a value that is no object gives
\* ShowDerivationInvalid, an object without keys ShowDerivationEmpty, and
\* otherwise the candidate is a key of that object, the sole key if it has one.
C9_DeriverKeyChoice ==
    show_derivation_json # NoJson =>
        LET chosen == Chosen(show_derivation_json)
            ks == { p[1] : p \in chosen.m }
        IN  IF chosen.t # "object"
            THEN build_result = Err("ShowDerivationInvalid", None)
            ELSE IF ks = {}
            THEN build_result = Err("ShowDerivationEmpty", None)
            ELSE /\ deriver_key \in ks
                 /\ build_result.kind
                        \notin { "ShowDerivationInvalid", "ShowDerivationEmpty" }

\* C9 witness: Scenario C, {"derivations": {"/s/a": {..}}} resolves to "/s/a".
C9_Witness ==
    /\ show_derivation_json =
           JsonObject({ << DerivationsKey,
                           JsonObject({ << << "/", "s", "/", "a" >>, DrvBody >> }) >> })
    /\ deriver_key = << "/", "s", "/", "a" >>
    /\ pc = "eval_store"

\* some subprocess the task waited for was ended by a signal
SignalExit == \E i \in DOMAIN trace : trace[i].ev = "exit" /\ trace[i].code = None

\* C10: a subprocess that exits without an exit code is never treated as
\* success: a pipeline in which one did does not end with build_profile and
\* push_profile both returning Ok. (The claim also wants the run to end in an
\* error that records the code as absent; already this weaker reading fails.)
C10_SignalIsNeverSuccess ==
    (pc = "done" /\ SignalExit) => ~(build_result = Ok /\ push_result = Ok)

----------------------------------------------------------------------------
(* C11 *)

\* the call sites that invoke a subprocess
CallSites ==
    { "show_derivation", "eval_store", "path_info", "local_build", "sign",
      "remote_copy", "remote_build", "push_copy" }

\* a step of the pipeline has ended in an error or a panic
Errored ==
    \/ build_result.tag \in { "Err", "Panic" }
    \/ push_result.tag \in { "Err", "Panic" }

\* C11: in every run of one target's pipeline each subprocess call site is
\* invoked at most once, and once a step has produced an error no subprocess is
\* invoked any more: no retry, and no step after a failure.
C11_NoRetryNoStepAfterError ==
    /\ [](\A site \in CallSites : Invocations(site) <= 1)
    /\ [][Errored =>
            \A site \in CallSites :
                Events("invoke", site)' = Events("invoke", site)]_vars

\* a run that failed at the recipe copy and made no other build or copy
C11_Witness ==
    /\ pc = "done"
    /\ build_result.tag = "Err"
    /\ build_result.kind = "CopyExit"
    /\ Invocations("remote_copy") = 1
    /\ Invocations("remote_build") = 0
    /\ Invocations("push_copy") = 0

----------------------------------------------------------------------------
(* C12 *)

\* build_profile_remotely has returned or unwound
RemoteEnded == build_result.tag # "Pending"

\* child c was never spawned, or wait() was called on it
WaitedOn(c) == children[c] \in { "none", "reaped", "wait_failed" }

\* C12: every child build_profile_remotely spawns is waited on before the
\* function returns or unwinds, on every exit path: the function has never
\* ended while its copy or build child was spawned but never waited on.
C12_ChildrenWaitedOn ==
    RemoteEnded => \A c \in { "copy", "build" } : WaitedOn(c)

----------------------------------------------------------------------------
(* C13 *)

\* the progress messages that are lines of stream s of child c, in order
Forwarded(c, s) ==
    SelectSeq(pb_messages, LAMBDA l : l.child = c /\ l.stream = s)

\* child c was spawned and the task is no longer in its forwarding loop
LeftLoop(c) == children[c] # "none" /\ pc # "remote_" \o c \o "_pb"

\* wait() was called on child c
WaitCalled(c) ==
    children[c] \in { "reaped", "wait_failed" } \/ pc = "remote_" \o c \o "_wait"

\* C13: with a progress bar attached, what has been forwarded of a stream is
\* always the lines the child wrote to it so far, once each and in their order;
\* when the forwarding loop of a child has ended, every line the child wrote
\* has been forwarded and both streams are at end of file; and wait() is
\* called on the child only after the loop has ended.
C13_EveryLineForwardedOnce ==
    progressbar =>
        \A c \in { "copy", "build" } :
            /\ \A s \in Streams :
                /\ Len(Forwarded(c, s)) <= Len(scripts[c][s])
                /\ Forwarded(c, s) = SubSeq(scripts[c][s], 1, Len(Forwarded(c, s)))
            /\ LeftLoop(c) =>
                /\ \A s \in Streams : Forwarded(c, s) = scripts[c][s]
                /\ children[c] # "spawned"
            /\ WaitCalled(c) => LeftLoop(c)

----------------------------------------------------------------------------
(* C14 *)

\* child c has a line left to write and every stream it has one for is a full
\* pipe: it cannot go on until somebody reads
Blocked(c) ==
    /\ children[c] = "spawned"
    /\ \E s \in Streams : written[s] < Len(scripts[c][s])
    /\ \A s \in Streams :
        written[s] < Len(scripts[c][s]) => Len(pipes[s]) >= PipeLines

\* C14: without a progress bar the output of the remote copy and remote build
\* children is never held in a pipe that nothing reads: while the task is in
\* wait() on a child, the child is never blocked writing its output, so it can
\* run to its exit and the wait returns.
C14_ChildNeverBlockedOnOutput ==
    ~progressbar =>
        \A c \in { "copy", "build" } :
            pc = "remote_" \o c \o "_wait" => ~Blocked(c)

----------------------------------------------------------------------------
(* C15 *)

\* the call site of the last subprocess invocation
LastInvoked ==
    LET I == { i \in DOMAIN trace : trace[i].ev = "invoke" }
    IN  IF I = {} THEN "" ELSE trace[CHOOSE i \in I : \A j \in I : j <= i].site

\* the call site an error kind names when each kind belongs to one call site:
\* the copy kinds to the closure copy of push, the build kinds to the local build
SiteOfKind(kind) ==
    CASE kind \in { "ShowDerivation", "ShowDerivationExit", "ShowDerivationUtf8",
                    "ShowDerivationParse", "ShowDerivationInvalid",
                    "ShowDerivationEmpty" } -> "show_derivation"
      [] kind \in { "EvalStore", "EvalStoreUtf8" } -> "eval_store"
      [] kind = "PathInfo" -> "path_info"
      [] kind \in { "Build", "BuildExit", "DeployRsActivateDoesntExist",
                    "ActivateRsDoesntExist" } -> "local_build"
      [] kind \in { "Sign", "SignExit" } -> "sign"
      [] kind \in { "Copy", "CopyExit" } -> "push_copy"
      [] OTHER -> ""

\* the call site an error names when the kind is read together with the
\* function that returned it and the effective remote_build
SiteOfError(kind, function, remote) ==
    IF kind \in { "Copy", "CopyExit" } /\ function = "build_profile"
    THEN "remote_copy"
    ELSE IF kind \in { "Build", "BuildExit" } /\ remote THEN "remote_build"
    ELSE SiteOfKind(kind)

\* C15 as stated: the kind of an error alone names the call site whose
\* subprocess failed; no two call sites return the same kind.
C15_KindAloneNamesSite ==
    /\ build_result.tag = "Err" => LastInvoked = SiteOfKind(build_result.kind)
    /\ push_result.tag = "Err" => LastInvoked = SiteOfKind(push_result.kind)

\* C15 amended: Copy and CopyExit are returned by the recipe copy of the remote
\* build and by the closure copy of push, Build and BuildExit by the local and
\* by the remote build; every other kind has one call site. The kind names the
\* call site once it is read together with the function that returned it
\* (build_profile or push_profile) and the effective remote_build.
C15_KindAndContextNameSite ==
    /\ build_result.tag = "Err" =>
         LastInvoked = SiteOfError(build_result.kind, "build_profile",
                                   builds_remotely(merged_settings))
    /\ push_result.tag = "Err" =>
         LastInvoked = SiteOfError(push_result.kind, "push_profile",
                                   builds_remotely(merged_settings))

\* the recipe copy of a remote build returned CopyExit
C15_Witness ==
    /\ build_result.tag = "Err"
    /\ build_result.kind = "CopyExit"
    /\ LastInvoked = "remote_copy"

----------------------------------------------------------------------------
(* C16 *)

\* the three resolver queries of build_profile
Probes == { "show_derivation", "eval_store", "path_info" }

\* the subprocess of the call site was invoked and did not exit with code 0:
\* it failed to launch, exited non-zero, or exited without a code
FailedAt(site) ==
    /\ Events("invoke", site) # {}
    /\ \A i \in Events("exit", site) : trace[i].code # Some(0)

\* C16: a resolver query that fails to launch or does not exit with code 0 ends
\* build_profile with an error of that query, and no build or copy invocation
\* follows: in a finished run with such a query, build_profile returned an
\* error and nothing was built or copied. (The claim also wants the kind of the
\* error to name the query and the failure; already this weaker reading fails.)
C16_ProbeFailureEndsBuildProfile ==
    \A site \in Probes :
        (pc = "done" /\ FailedAt(site)) =>
            /\ build_result.tag = "Err"
            /\ BuildCalls = 0
            /\ \A s \in CallSites \ Probes : Invocations(s) = 0

----------------------------------------------------------------------------
(* C17 *)

\* the subprocess of the call site was invoked and could not be spawned
SpawnFailedAt(site) ==
    /\ Events("invoke", site) # {}
    /\ IF site = "remote_copy" THEN children["copy"] = "none"
       ELSE IF site = "remote_build" THEN children["build"] = "none"
       ELSE Events("exit", site) = {}

\* the launch-failure kind of each call site
LaunchError(site) ==
    CASE site = "show_derivation" -> "ShowDerivation"
      [] site = "eval_store" -> "EvalStore"
      [] site = "path_info" -> "PathInfo"
      [] site \in { "local_build", "remote_build" } -> "Build"
      [] site = "sign" -> "Sign"
      [] site \in { "remote_copy", "push_copy" } -> "Copy"

\* what the function of the call site returned
ResultAt(site) == IF site = "push_copy" THEN push_result ELSE build_result

\* C17: at every subprocess call site a spawn failure is returned as the typed
\* launch-failure error of that phase, which is not its exit-failure error,
\* and never ends the task in another way such as a panic.
C17_SpawnFailureIsTypedError ==
    \A site \in CallSites :
        SpawnFailedAt(site) => ResultAt(site) = Err(LaunchError(site), None)

----------------------------------------------------------------------------
(* C18 *)

\* C18: in build_profile_remotely the remote build is invoked only after the
\* recipe copy has run and exited with code 0; a recipe copy that exits with
\* a non-zero or a missing code gives CopyExit with that code and the remote
\* build is never invoked; and the function returns Ok only if the copy and
\* the build both exited with code 0.
C18_CopyExitsBeforeRemoteBuild ==
    /\ \A j \in Events("invoke", "remote_build") :
         \E i \in Events("exit", "remote_copy") :
            i < j /\ trace[i].code = Some(0)
    /\ \A i \in Events("exit", "remote_copy") :
         trace[i].code # Some(0) =>
            /\ build_result = Err("CopyExit", trace[i].code)
            /\ Invocations("remote_build") = 0
    /\ (build_result = Ok /\ Events("call", "build_profile_remotely") # {}) =>
         /\ \E i \in Events("exit", "remote_copy") : trace[i].code = Some(0)
         /\ \E i \in Events("exit", "remote_build") : trace[i].code = Some(0)

\* the recipe copy was ended by a signal: CopyExit without a code, no build
C18_Witness ==
    /\ \E i \in Events("exit", "remote_copy") : trace[i].code = None
    /\ build_result = Err("CopyExit", None)
    /\ children["copy"] = "reaped"
    /\ children["build"] = "none"

----------------------------------------------------------------------------
(* C19 *)

\* the positions in the trace where an entry point was looked for
Looked(entry) == Events("exists", entry) \cup Events("missing", entry)

\* C19: in build_profile_locally the entry points are looked for only after
\* the build exited with code 0, deploy-rs-activate first and activate-rs
\* second. A missing deploy-rs-activate gives DeployRsActivateDoesntExist,
\* otherwise a missing activate-rs gives ActivateRsDoesntExist, and in both
\* cases no sign invocation is made; the function returns Ok only when both
\* entry points exist.
C19_EntryPointChecks ==
    /\ \A j \in Looked("deploy-rs-activate") :
         \E i \in Events("exit", "local_build") : i < j /\ trace[i].code = Some(0)
    /\ \A j \in Looked("activate-rs") :
         \E i \in Events("exists", "deploy-rs-activate") : i < j
    /\ Events("missing", "deploy-rs-activate") # {} =>
         /\ build_result = Err("DeployRsActivateDoesntExist", None)
         /\ Looked("activate-rs") = {}
         /\ Invocations("sign") = 0
    /\ Events("missing", "activate-rs") # {} =>
         /\ build_result = Err("ActivateRsDoesntExist", None)
         /\ Invocations("sign") = 0
    /\ (build_result = Ok /\ Events("call", "build_profile_locally") # {}) =>
         /\ Events("exists", "deploy-rs-activate") # {}
         /\ Events("exists", "activate-rs") # {}

\* the build succeeded, deploy-rs-activate exists and activate-rs is missing,
\* with a signing key present
C19_Witness ==
    /\ local_key
    /\ Events("exists", "deploy-rs-activate") # {}
    /\ Events("missing", "activate-rs") # {}
    /\ build_result = Err("ActivateRsDoesntExist", None)

----------------------------------------------------------------------------
(* C20 *)

RemoteBranch == Events("call", "build_profile_remotely") # {}

LocalBranch == Events("call", "build_profile_locally") # {}

\* remote_build is set on none of the three layers
UnsetOnAllLayers ==
    /\ root["remote_build"] = None
    /\ node["remote_build"] = None
    /\ profile["remote_build"] = None

\* C20: when build_profile reaches its branch, it takes the remote branch
\* exactly when the effective remote_build is present and true, and the local
\* branch when it is false or is absent, as it is when no layer sets it.
C20_RemoteIffEffectiveTrue ==
    BuildCalls > 0 =>
        /\ RemoteBranch <=> merged_settings["remote_build"] = Some(TRUE)
        /\ LocalBranch <=> merged_settings["remote_build"] \in { Some(FALSE), None }
        /\ UnsetOnAllLayers => LocalBranch

\* a local build of a target whose effective remote_build is false, set below
\* the profile layer
C20_Witness ==
    /\ LocalBranch
    /\ merged_settings["remote_build"] = Some(FALSE)
    /\ profile["remote_build"] = None
    /\ Invocations("local_build") = 1

----------------------------------------------------------------------------
(* C21 *)

\* the first position of symbol ch in s, Len(s) + 1 when there is none
IndexOf(s, ch) ==
    IF \E i \in DOMAIN s : s[i] = ch
    THEN CHOOSE i \in DOMAIN s : s[i] = ch /\ \A j \in 1..(i - 1) : s[j] # ch
    ELSE Len(s) + 1

\* the user of a store address scheme://user@host[?..]
UserOf(address) ==
    SubSeq(address, IndexOf(address, "/") + 2, IndexOf(address, "@") - 1)

\* the host of a store address scheme://user@host[?..]
HostOf(address) ==
    SubSeq(address, IndexOf(address, "@") + 1, IndexOf(address, "?") - 1)

\* the hostname override when present, the node's hostname otherwise
Host ==
    IF cmd_overrides.hostname # None
    THEN CHOOSE h \in cmd_overrides.hostname : TRUE
    ELSE node_settings.hostname

\* the commands issued so far at the call sites
Issued(sites) == { c \in UNION { commands[site] : site \in sites } : TRUE }

\* C21: the commands of build_profile_remotely and the closure copy of
\* push_profile address the same user and host, DeployDefs.ssh_user at the
\* hostname override when present and at the node's hostname otherwise, and
\* carry the same options string: each function's NIX_SSHOPTS is what the
\* other derives from the merged ssh_opts.
C21_SameDestinationInBuildAndPush ==
    /\ \A c \in Issued({ "remote_copy", "remote_build", "push_copy" }) :
         /\ UserOf(c.to) = deploy_defs.ssh_user
         /\ HostOf(c.to) = Host
    /\ \A c \in Issued({ "remote_copy", "remote_build" }) :
         c.NIX_SSHOPTS = push_ssh_opts_str(merged_settings)
    /\ \A c \in Issued({ "push_copy" }) :
         c.NIX_SSHOPTS = remote_ssh_opts_str(merged_settings)

\* a remote build with a hostname override and an ssh option that has to be
\* quoted: both remote commands were issued
C21_Witness ==
    /\ commands["remote_copy"] # None
    /\ commands["remote_build"] # None
    /\ cmd_overrides.hostname # None
    /\ merged_settings["ssh_opts"] = << << "a", " ", "b" >>, << "-", "A" >> >>

----------------------------------------------------------------------------
(* C22 *)

\* the value after "compress=" in the address of the closure copy
CompressOf(address) ==
    SubSeq(address, IndexOf(address, "=") + 1, Len(address))

\* C22: the closure copy of push_profile carries --substitute-on-destination
\* exactly when the effective fast_connection is not true, --no-check-sigs
\* exactly when check_sigs is false, and its address says compress=true exactly
\* when the effective compress is true and compress=false otherwise.
C22_PushCopyFlags ==
    \A c \in Issued({ "push_copy" }) :
        /\ "--substitute-on-destination" \in c.flags
             <=> merged_settings["fast_connection"] # Some(TRUE)
        /\ "--no-check-sigs" \in c.flags <=> ~check_sigs
        /\ CompressOf(c.to) =
             (IF merged_settings["compress"] = Some(TRUE)
              THEN << "t", "r", "u", "e" >>
              ELSE << "f", "a", "l", "s", "e" >>)

\* a closure copy with fast_connection and compress unset and signature checks
\* switched off
C22_Witness ==
    /\ commands["push_copy"] # None
    /\ merged_settings["fast_connection"] = None
    /\ merged_settings["compress"] = None
    /\ ~check_sigs
    /\ Invocations("push_copy") = 1

----------------------------------------------------------------------------
(* C23 *)

\* the closure copy of push_profile was issued
Copied == Invocations("push_copy") > 0

\* the local build ran and exited with code 0
BuiltLocally == \E i \in Events("exit", "local_build") : trace[i].code = Some(0)

\* C23 as stated: over a full run of the pipeline the closure copy is issued
\* if and only if the local build branch was the one that ran: never built
\* remotely and copied, never built locally with the copy skipped. (Read in its
\* weakest form: the copy may be missing when the local build itself failed.)
C23_CopiedIffLocalBranch ==
    pc = "done" =>
        /\ Copied => LocalBranch
        /\ BuiltLocally => Copied

\* C23 amended: a target is never both built on the remote branch and copied;
\* over a full run the closure copy is issued, once, if and only if the local
\* branch ran and build_profile returned Ok. A local branch that ends in an
\* error (build, entry points, signing) is followed by no copy.
C23_CopiedIffLocalBranchSucceeded ==
    /\ ~(RemoteBranch /\ Copied)
    /\ Invocations("push_copy") <= 1
    /\ pc = "done" => (Copied <=> (LocalBranch /\ build_result = Ok))

\* a full run that built and signed on the local branch and copied the closure
C23_Witness ==
    /\ pc = "done"
    /\ LocalBranch
    /\ SignedOnce
    /\ build_result = Ok
    /\ Copied
    /\ push_result = Ok

====
